---- MODULE Spec2Model ----
(***************************************************************************)
(* Session management of the calculator MCP server (src/index.ts).         *)
(*                                                                         *)
(* The server keeps one table, `sessions`, from session id to              *)
(* {server, transport}.  handleSseRequest registers a session and awaits   *)
(* server.connect; the transport's onclose handler removes it; its onerror *)
(* handler only logs; handlePostMessage looks a session up and forwards    *)
(* the request to its transport.  Node runs each handler to its next       *)
(* await without interleaving, so every action below is one such           *)
(* non-suspending stretch of code.  The SDK's Server and                   *)
(* SSEServerTransport are the environment: when a connect settles, when a  *)
(* transport notifies close or error and how a forwarded message settles   *)
(* are nondeterministic.                                                   *)
(***************************************************************************)
EXTENDS Integers, FiniteSets, Sequences, TLC

\* ---------------------------------------------------------------- bounds
MaxConn == 2        \* SSE connections (GET /mcp) the clients open
MaxReq == 1         \* POSTs to /mcp/messages the clients send
MaxCloseCalls == 2  \* times a transport may notify close

Conns == 1..MaxConn
Reqs == 1..MaxReq

\* Session ids are the transports' sessionId strings; 1..MaxConn stands for
\* the values the generator can draw.
Ids == 1..MaxConn

\* url.searchParams.get("sessionId"): null when the parameter is absent, ""
\* when it is present and empty, otherwise the string given.
NullParam == -1
EmptyParam == 0
Params == {NullParam, EmptyParam} \cup Ids

NoId == 0
NoTransport == 0
NoSession == [server |-> 0, transport |-> 0]

VARIABLES
    sessions,       \* the session table: id -> [server, transport]
    issued,         \* ids handed out by transports so far
    removed,        \* ids that sessions.delete took out of the table
    connSid,        \* connection -> sessionId of its transport (NoId before Open)
    ssePc,          \* connection -> where its handleSseRequest stands
    sseStatus,      \* connection -> status of the response head (0: none sent)
    headAtFail,     \* connection -> res.headersSent when connect rejected
    sseHeads,       \* connection -> response heads written for its GET
    removedAtOpen,  \* connection -> ids already removed when it registered
    tClosed,        \* transport -> it has notified close
    tErrored,       \* transport -> it has notified an error
    closeCalls,     \* transport -> runs of its onclose handler
    releasing,      \* transport -> server.close() calls still awaited
    closeErrors,    \* errors raised by onclose handlers
    post            \* request -> record of its handlePostMessage

\* The protocol server's side: the widget registry and what it reads.
VARIABLES
    disk,           \* widget id -> state of <ASSETS_DIR>/<id>.html
    widgetHtml,     \* widget id -> the html field of its registry record
    fileChanges,    \* changes made to the files since startup
    reply           \* the last protocol request handled and its outcome

toolVars == <<disk, widgetHtml, fileChanges, reply>>

\* The HTTP listener's side: the requests that reach no session handler.
VARIABLES
    http,           \* request -> record of its pass through the dispatcher
    crashed         \* an exception no handler caught has ended the process

httpVars == <<http, crashed>>

\* The super-calculator widget, in the host's page.
VARIABLES
    superCalculator, \* the component's state: the useState values
    calling,        \* calls of window.openai.callTool not settled yet
    completed,      \* the calculations that reached setHistory, in order
    shown,          \* the run of handleCalculate that last called setResult
    calcs           \* runs of handleCalculate so far

widgetVars == <<superCalculator, calling, completed, shown, calcs>>

vars == <<sessions, issued, removed, connSid, ssePc, sseStatus, headAtFail,
          sseHeads, removedAtOpen, tClosed, tErrored, closeCalls, releasing,
          closeErrors, post, toolVars, httpVars, widgetVars>>

sessionVars == <<sessions, issued, removed, connSid, ssePc, sseStatus,
                 headAtFail, sseHeads, removedAtOpen, tClosed, tErrored, closeCalls,
                 releasing, closeErrors, post>>

sseVars == <<connSid, ssePc, sseStatus, headAtFail, sseHeads, removedAtOpen>>
transportVars == <<tClosed, tErrored, closeCalls, releasing, closeErrors>>

\* ------------------------------------------------------------ JS numbers
\* A number is a reduced fraction n/d with d > 0; d = 0 encodes the three
\* non-finite doubles: 1/0 Infinity, -1/0 -Infinity, 0/0 NaN.  Arithmetic is
\* exact inside [-MaxDouble, MaxDouble] and overflows to an infinity outside
\* it, as IEEE doubles do beyond Number.MAX_VALUE; rounding of the mantissa
\* is not modelled.
MaxDouble == 100    \* stands for Number.MAX_VALUE

Abs(i) == IF i < 0 THEN -i ELSE i
Sign(i) == IF i < 0 THEN -1 ELSE IF i > 0 THEN 1 ELSE 0

RECURSIVE Gcd(_, _)
Gcd(i, j) == IF j = 0 THEN i ELSE Gcd(j, i % j)

Num(n, d) == [t |-> "number", n |-> n, d |-> d]
Infinity == Num(1, 0)
NegInfinity == Num(-1, 0)
NaN == Num(0, 0)

IsFiniteNum(x) == x.t = "number" /\ x.d # 0

\* The double nearest to the exact value n/d (d > 0).
ToDouble(n, d) ==
    IF Abs(n) > MaxDouble * d THEN Num(Sign(n), 0)
    ELSE LET g == Gcd(Abs(n), d) IN Num(n \div g, d \div g)

\* x + y, x - y, x * y, x / y on finite doubles.
JsAdd(x, y) == ToDouble(x.n * y.d + y.n * x.d, x.d * y.d)
JsSub(x, y) == ToDouble(x.n * y.d - y.n * x.d, x.d * y.d)
JsMul(x, y) == ToDouble(x.n * y.n, x.d * y.d)
JsDiv(x, y) ==
    IF y.n = 0 THEN Num(Sign(x.n), 0)
    ELSE ToDouble(x.n * y.d * Sign(y.n), x.d * Abs(y.n))

\* Values a JSON argument can have that are not numbers.
Undefined == [t |-> "undefined", n |-> 0, d |-> 1]
StrX == [t |-> "string", n |-> 0, d |-> 1]

\* ------------------------------------------------------- widget registry
\* const widgets: the five records, without the html field (kept in
\* widgetHtml, the one field the code assigns after construction).
widgets ==
    <<[id |-> "add", title |-> "Addition Calculator",
       templateUri |-> "ui://widget/add.html",
       invoking |-> "Opening addition calculator...",
       invoked |-> "Addition calculator ready",
       responseText |-> "Addition calculator rendered!"],
      [id |-> "subtract", title |-> "Subtraction Calculator",
       templateUri |-> "ui://widget/subtract.html",
       invoking |-> "Opening subtraction calculator...",
       invoked |-> "Subtraction calculator ready",
       responseText |-> "Subtraction calculator rendered!"],
      [id |-> "multiply", title |-> "Multiplication Calculator",
       templateUri |-> "ui://widget/multiply.html",
       invoking |-> "Opening multiplication calculator...",
       invoked |-> "Multiplication calculator ready",
       responseText |-> "Multiplication calculator rendered!"],
      [id |-> "divide", title |-> "Division Calculator",
       templateUri |-> "ui://widget/divide.html",
       invoking |-> "Opening division calculator...",
       invoked |-> "Division calculator ready",
       responseText |-> "Division calculator rendered!"],
      [id |-> "super-calculator", title |-> "Super Calculator",
       templateUri |-> "ui://widget/super-calculator.html",
       invoking |-> "Opening super calculator...",
       invoked |-> "Super calculator ready",
       responseText |-> "Super calculator rendered!"]>>

WidgetIds == {widgets[i].id : i \in DOMAIN widgets}
WidgetUris == {widgets[i].templateUri : i \in DOMAIN widgets}

NoWidget ==
    [id |-> "", title |-> "", templateUri |-> "", invoking |-> "",
     invoked |-> "", responseText |-> "", html |-> <<"none">>]

\* A registry record as the handlers see it: the static fields and the
\* current html.
WidgetRecord(w, html) ==
    [id |-> w.id, title |-> w.title, templateUri |-> w.templateUri,
     invoking |-> w.invoking, invoked |-> w.invoked,
     responseText |-> w.responseText, html |-> html[w.id]]

\* widgetsById.get(name) over a registry whose html fields are `html`:
\* forEach sets each id in turn, so the last record with that id wins.
widgetsById(html, name) ==
    IF \E i \in DOMAIN widgets : widgets[i].id = name
    THEN LET i == CHOOSE k \in DOMAIN widgets :
                    /\ widgets[k].id = name
                    /\ \A j \in DOMAIN widgets : widgets[j].id = name => j <= k
         IN WidgetRecord(widgets[i], html)
    ELSE NoWidget

\* A lookup by uri that falls back on the first widget.
widgetsByUriDefault(html, uri) ==
    IF \E i \in DOMAIN widgets : widgets[i].templateUri = uri
    THEN LET i == CHOOSE k \in DOMAIN widgets : widgets[k].templateUri = uri
         IN WidgetRecord(widgets[i], html)
    ELSE WidgetRecord(widgets[1], html)

\* widgetsByUri.get(uri), likewise.
widgetsByUri(html, uri) ==
    IF \E i \in DOMAIN widgets : widgets[i].templateUri = uri
    THEN LET i == CHOOSE k \in DOMAIN widgets :
                    /\ widgets[k].templateUri = uri
                    /\ \A j \in DOMAIN widgets :
                          widgets[j].templateUri = uri => j <= k
         IN WidgetRecord(widgets[i], html)
    ELSE NoWidget

\* States of a widget's html file: missing, present and empty, or present
\* with one of two contents.
FileStates == {"absent", "empty", "built", "rebuilt"}

\* A reader of the widget files that gives nothing for a missing file.
readWidgetHtmlStrict(files, widgetName) ==
    IF files[widgetName] # "absent"
    THEN <<"file", IF files[widgetName] = "empty" THEN "" ELSE files[widgetName]>>
    ELSE <<"none">>

\* readWidgetHtml(widgetName): the file's text when the file exists (the
\* empty text for an empty file), else the generated shell that names the
\* widget and the widget domain.
readWidgetHtml(files, widgetName) ==
    IF files[widgetName] # "absent"
    THEN <<"file", IF files[widgetName] = "empty" THEN "" ELSE files[widgetName]>>
    ELSE <<"shell", widgetName, "WIDGET_DOMAIN">>

\* The files at startup, and the html the registry is built with.
StartDisk == [w \in WidgetIds |-> "built"]
StartHtml == [w \in WidgetIds |-> readWidgetHtml(StartDisk, w)]

NoReply == [kind |-> "none"]

InitTools ==
    /\ disk = StartDisk
    /\ widgetHtml = StartHtml
    /\ fileChanges = 0
    /\ reply = NoReply

\* --------------------------------------------------- CallTool (360-445)
NoOperation == "(absent)"
Operations == {"add", "subtract", "multiply", "divide"}

\* z.number(): a value of type number that is not NaN.
zNumber(v) == v.t = "number" /\ ~(v.n = 0 /\ v.d = 0)

\* A value taken as a number whatever it is: 0 for one that is not a number.
Coerce(v) == IF v.t = "number" THEN v ELSE Num(0, 1)

\* A parser that coerces instead of rejecting.
basicToolInputParserLax(args) ==
    [ok |-> TRUE, a |-> Coerce(args.a), b |-> Coerce(args.b),
     operation |-> NoOperation]

\* basicToolInputParser.parse: a and b must be numbers; other keys are
\* dropped.  ok = FALSE stands for the ZodError thrown.
basicToolInputParser(args) ==
    [ok |-> zNumber(args.a) /\ zNumber(args.b), a |-> args.a, b |-> args.b,
     operation |-> NoOperation]

\* superCalculatorInputParser.parse: a and b numbers, operation one of the
\* four names.
superCalculatorInputParser(args) ==
    [ok |-> zNumber(args.a) /\ zNumber(args.b) /\ args.operation \in Operations,
     a |-> args.a, b |-> args.b, operation |-> args.operation]

Computed(result, operationText) ==
    [error |-> "", result |-> result, operationText |-> operationText]

Thrown(message) ==
    [error |-> message, result |-> Undefined, operationText |-> ""]

\* The super-calculator switch without its b === 0 test.
SuperSwitchUnchecked(p) ==
    CASE p.operation = "add" -> Computed(JsAdd(p.a, p.b), "sum")
      [] p.operation = "subtract" -> Computed(JsSub(p.a, p.b), "difference")
      [] p.operation = "multiply" -> Computed(JsMul(p.a, p.b), "product")
      [] p.operation = "divide" -> Computed(JsDiv(p.a, p.b), "quotient")
      [] OTHER -> Thrown("Unknown operation")

\* switch (parsedArgs.operation) of the super-calculator branch (377-399).
SuperSwitch(p) ==
    CASE p.operation = "add" -> Computed(JsAdd(p.a, p.b), "sum")
      [] p.operation = "subtract" -> Computed(JsSub(p.a, p.b), "difference")
      [] p.operation = "multiply" -> Computed(JsMul(p.a, p.b), "product")
      [] p.operation = "divide" ->
            IF p.b.n = 0 /\ p.b.d # 0 THEN Thrown("Cannot divide by zero")
            ELSE Computed(JsDiv(p.a, p.b), "quotient")
      [] OTHER -> Thrown("Unknown operation")

\* The single-operation switch without its b === 0 test.
BasicSwitchUnchecked(id, p) ==
    CASE id = "add" -> Computed(JsAdd(p.a, p.b), "sum")
      [] id = "subtract" -> Computed(JsSub(p.a, p.b), "difference")
      [] id = "multiply" -> Computed(JsMul(p.a, p.b), "product")
      [] id = "divide" -> Computed(JsDiv(p.a, p.b), "quotient")
      [] OTHER -> Thrown("Unknown operation")

\* The single-operation switch with the operands of subtract exchanged.
BasicSwitchSwapped(id, p) ==
    CASE id = "add" -> Computed(JsAdd(p.a, p.b), "sum")
      [] id = "subtract" -> Computed(JsSub(p.b, p.a), "difference")
      [] id = "multiply" -> Computed(JsMul(p.a, p.b), "product")
      [] id = "divide" ->
            IF p.b.n = 0 /\ p.b.d # 0 THEN Thrown("Cannot divide by zero")
            ELSE Computed(JsDiv(p.a, p.b), "quotient")
      [] OTHER -> Thrown("Unknown operation")

\* switch (widget.id) of the single-operation branch (402-424).
BasicSwitch(id, p) ==
    CASE id = "add" -> Computed(JsAdd(p.a, p.b), "sum")
      [] id = "subtract" -> Computed(JsSub(p.a, p.b), "difference")
      [] id = "multiply" -> Computed(JsMul(p.a, p.b), "product")
      [] id = "divide" ->
            IF p.b.n = 0 /\ p.b.d # 0 THEN Thrown("Cannot divide by zero")
            ELSE Computed(JsDiv(p.a, p.b), "quotient")
      [] OTHER -> Thrown("Unknown operation")

NoStructured ==
    [a |-> Undefined, b |-> Undefined, operation |-> NoOperation,
     result |-> Undefined]

ToolError(message) ==
    [error |-> message, text |-> <<>>, structuredContent |-> NoStructured,
     meta |-> <<>>]

\* widgetInvocationMeta(widget).
widgetInvocationMeta(widget) == <<widget.invoking, widget.invoked>>

\* The value returned at 427-443.  text lists the parts of
\* `The ${operationText} is ${result}. ${widget.responseText}`, operationText
\* being `<word> of ${a} and ${b}`; the numbers stand for their renderings.
ToolResult(widget, p, c) ==
    IF c.error # "" THEN ToolError(c.error)
    ELSE [error |-> "",
          text |-> <<c.operationText, p.a, p.b, c.result, widget.responseText>>,
          structuredContent |->
              [a |-> p.a, b |-> p.b,
               operation |-> IF widget.id = "super-calculator"
                             THEN p.operation ELSE NoOperation,
               result |-> c.result],
          meta |-> widgetInvocationMeta(widget)]

\* A handler that parses the arguments before it looks the tool up.
CallToolParseFirst(html, name, args) ==
    LET widget == widgetsById(html, name)
        p == IF name = "super-calculator"
             THEN superCalculatorInputParser(args)
             ELSE basicToolInputParser(args)
    IN  IF ~p.ok THEN ToolError("ZodError")
        ELSE IF widget = NoWidget THEN ToolError("Unknown tool")
        ELSE IF widget.id = "super-calculator"
        THEN ToolResult(widget, p, SuperSwitch(p))
        ELSE ToolResult(widget, p, BasicSwitch(widget.id, p))

\* The CallTool handler on a registry whose html fields are `html`:
\* request.params.name, request.params.arguments ?? {} (a missing key is
\* Undefined / NoOperation).
CallTool(html, name, args) ==
    LET widget == widgetsById(html, name)
    IN  IF widget = NoWidget THEN ToolError("Unknown tool")
        ELSE IF widget.id = "super-calculator"
        THEN LET p == superCalculatorInputParser(args)
             IN IF ~p.ok THEN ToolError("ZodError")
                ELSE ToolResult(widget, p, SuperSwitch(p))
        ELSE LET p == basicToolInputParser(args)
             IN IF ~p.ok THEN ToolError("ZodError")
                ELSE ToolResult(widget, p, BasicSwitch(widget.id, p))

\* ------------------------------------------------- request URLs (656-657)
MaxHttp == 1        \* requests that reach no session handler

HttpReqs == 1..MaxHttp

\* A path is a sequence of segments and a segment a sequence of pieces of
\* text, so that "a..b.js" is <<"a", "..", "b", ".js">>: the text ".."
\* occurs in a segment exactly where it is one of its pieces.  The empty
\* segment stands for what follows a closing "/".
Empty == <<>>
Seg(text) == <<text>>
DotDot == Seg("..")

\* The request targets (req.url) drawn.
Targets ==
    {<<Seg("mcp")>>,
     <<Seg("mcp"), Seg("messages")>>,
     <<Seg("calculate")>>,
     <<Empty>>,
     <<Seg(".well-known"), Seg("openai-apps-challenge")>>,
     <<Seg("nowhere")>>,
     <<Empty, Empty>>,
     <<Seg("assets")>>,
     <<Seg("assets"), Empty>>,
     <<Seg("assets"), <<"app", ".js">>>>,
     <<Seg("assets"), <<"add", ".html">>>>,
     <<Seg("assets"), <<"a", "..", "b", ".js">>>>,
     <<Seg("assets"), <<"my", "%20", "file", ".js">>>>,
     <<Seg("assets"), Seg("img")>>,
     <<Seg("assets"), <<"secret", ".css">>>>,
     <<Seg("assets"), <<"missing", ".js">>>>,
     <<Seg("assets"), DotDot>>,
     <<Seg("assets"), DotDot, Seg("mcp")>>,
     <<Seg("assets"), Seg("%2e%2e"), Seg("mcp"), Seg("messages")>>,
     <<Seg("assets"), DotDot, DotDot, Seg("etc"), Seg("passwd")>>,
     <<Seg("assets"), <<"..", "%2f", "..", "%2f", "etc", "%2f", "passwd">>>>}

Methods == {"GET", "POST", "OPTIONS", "PUT"}

\* new URL(req.url, base) throws for the target "//": it opens an
\* authority that names no host.
UrlParses(target) == target # <<Empty, Empty>>

\* The URL parser's double-dot and single-dot segments, plain or
\* percent-encoded.
IsDoubleDot(seg) == seg \in {Seg(".."), Seg("%2e%2e")}
IsSingleDot(seg) == seg \in {Seg("."), Seg("%2e")}

Shorten(path) ==
    IF path = <<>> THEN <<>> ELSE SubSeq(path, 1, Len(path) - 1)

\* The URL parser's walk over the segments: a double-dot segment removes
\* the segment before it, a single-dot segment is dropped, and either one
\* in the last place leaves a closing "/".
RECURSIVE UrlPath(_, _)
UrlPath(segs, out) ==
    IF segs = <<>> THEN out
    ELSE LET seg == Head(segs)
             rest == Tail(segs)
         IN  IF IsDoubleDot(seg)
             THEN UrlPath(rest, IF rest = <<>>
                                THEN Append(Shorten(out), Empty)
                                ELSE Shorten(out))
             ELSE IF IsSingleDot(seg)
             THEN UrlPath(rest, IF rest = <<>> THEN Append(out, Empty) ELSE out)
             ELSE UrlPath(rest, Append(out, seg))

\* url.pathname of a target that parses; nothing in it is decoded.
Pathname(target) == UrlPath(target, <<>>)

ssePath == <<Seg("mcp")>>
postPath == <<Seg("mcp"), Seg("messages")>>
calculatePath == <<Seg("calculate")>>
rootPath == <<Empty>>
challengePath == <<Seg(".well-known"), Seg("openai-apps-challenge")>>

\* url.pathname.startsWith("/assets/") and what slice leaves of it.
StartsWithAssets(pathname) ==
    Len(pathname) >= 2 /\ pathname[1] = Seg("assets")

FileNameOf(pathname) == Tail(pathname)

\* A file name that swallows the text "..".
includesNothing(fileName) == FALSE

\* fileName.includes("..").
includesDotDot(fileName) ==
    \E i \in DOMAIN fileName : \E j \in DOMAIN fileName[i] :
        fileName[i][j] = ".."

\* path.normalize(path.join(ASSETS_DIR, fileName)) relative to ASSETS_DIR:
\* empty and "." segments are dropped and ".." climbs; climbing above
\* ASSETS_DIR leaves it.  Nothing is decoded.
RECURSIVE Normalize(_, _)
Normalize(segs, out) ==
    IF segs = <<>> THEN [within |-> TRUE, path |-> out]
    ELSE LET seg == Head(segs)
             rest == Tail(segs)
         IN  IF seg = Empty \/ seg = Seg(".") THEN Normalize(rest, out)
             ELSE IF seg = DotDot
             THEN IF out = <<>> THEN [within |-> FALSE, path |-> <<>>]
                  ELSE Normalize(rest, Shorten(out))
             ELSE Normalize(rest, Append(out, seg))

\* What lies at a path under ASSETS_DIR: the widgets' html files as `files`
\* has them, a script, a script with two dots in its name, a script with a
\* space in its name, a directory, and a file the process may not read.
FileKind(files, path) ==
    IF path = <<>> THEN "dir"
    ELSE IF \E w \in WidgetIds : path = <<<<w, ".html">>>>
    THEN LET w == CHOOSE x \in WidgetIds : path = <<<<x, ".html">>>>
         IN IF files[w] = "absent" THEN "absent" ELSE "file"
    ELSE IF path \in {<<<<"app", ".js">>>>, <<<<"a", "..", "b", ".js">>>>,
                      <<<<"my", " ", "file", ".js">>>>}
    THEN "file"
    ELSE IF path = <<Seg("img")>> THEN "dir"
    ELSE IF path = <<<<"secret", ".css">>>> THEN "unreadable"
    ELSE "absent"

\* stats.isFile() after fs.existsSync.
IsFile(kind) == kind \in {"file", "unreadable"}

\* The content type inferred from the end of the file name.
ContentTypeOf(fileName) ==
    LET last == fileName[Len(fileName)]
        ext == IF last = <<>> THEN "" ELSE last[Len(last)]
    IN  IF ext = ".js" THEN "application/javascript"
        ELSE IF ext = ".css" THEN "text/css"
        ELSE IF ext = ".html" THEN "text/html"
        ELSE "application/octet-stream"

\* A request the listener has not received yet, and the listener at startup.
NoFile == [from |-> "none", path |-> <<>>]

JsonNull == [t |-> "null", n |-> 0, d |-> 1]
NoJson == [error |-> "", result |-> Undefined]
NoBody == [kind |-> "none", a |-> Undefined, b |-> Undefined]

NewHttp ==
    [pc |-> "new", method |-> "", target |-> <<>>, status |-> 0, text |-> "",
     json |-> NoJson, served |-> NoFile, contentType |-> "",
     body |-> NoBody, heads |-> 0]

InitHttp ==
    /\ http = [h \in HttpReqs |-> NewHttp]
    /\ crashed = FALSE

NewPost ==
    [pc |-> "new", param |-> NullParam, lookedUp |-> FALSE, wasKey |-> FALSE,
     fwdTo |-> NoTransport, status |-> 0, threw |-> FALSE,
     headAtCatch |-> FALSE, heads |-> 0]

\* useState(...): the empty fields, operation add, no result, no error, an
\* empty history.
NoResult == JsonNull
EmptyText == [kind |-> "empty", value |-> Undefined]
NewWidget ==
    [a |-> EmptyText, b |-> EmptyText, operation |-> "add",
     result |-> NoResult, loading |-> FALSE, error |-> "", history |-> <<>>]

NoShown ==
    [path |-> "none", a |-> NaN, b |-> NaN, operation |-> "add"]

InitWidget ==
    /\ superCalculator = NewWidget
    /\ calling = <<>>
    /\ completed = <<>>
    /\ shown = NoShown
    /\ calcs = 0

\* The session table and the connections before the first request.
InitSessions ==
    /\ sessions = <<>>
    /\ issued = {}
    /\ removed = {}
    /\ connSid = [c \in Conns |-> NoId]
    /\ ssePc = [c \in Conns |-> "new"]
    /\ sseStatus = [c \in Conns |-> 0]
    /\ headAtFail = [c \in Conns |-> FALSE]
    /\ sseHeads = [c \in Conns |-> 0]
    /\ removedAtOpen = [c \in Conns |-> {}]
    /\ tClosed = [c \in Conns |-> FALSE]
    /\ tErrored = [c \in Conns |-> FALSE]
    /\ closeCalls = [c \in Conns |-> 0]
    /\ releasing = [c \in Conns |-> 0]
    /\ closeErrors = 0
    /\ post = [r \in Reqs |-> NewPost]

Init ==
    /\ InitSessions
    /\ InitTools
    /\ InitHttp
    /\ InitWidget

\* ------------------------------------------------------- the session table
\* sessions.set(sessionId, record): inserts, or overwrites an existing key.
SetSession(tbl, sid, rec) ==
    [k \in DOMAIN tbl \cup {sid} |-> IF k = sid THEN rec ELSE tbl[k]]

ClearSessions(tbl, sid) == <<>>

KeepSession(tbl, sid) == tbl

\* sessions.delete(sessionId): removes the key when present, else nothing.
DeleteSession(tbl, sid) ==
    [k \in DOMAIN tbl \ {sid} |-> tbl[k]]

\* Every record the table ever held under sid and that is still known to a
\* connection (used only to state a lookup that reads a stale copy).
LookupCached(sid) ==
    IF \E c \in Conns : connSid[c] = sid
    THEN LET c == CHOOSE x \in Conns : connSid[x] = sid
         IN [server |-> c, transport |-> c]
    ELSE NoSession

\* A lookup that, on a hit, hands out the first record of the table instead of
\* the one stored under sid.
LookupFirst(sid) ==
    IF sid \in DOMAIN sessions
    THEN sessions[CHOOSE k \in DOMAIN sessions : \A j \in DOMAIN sessions : k <= j]
    ELSE NoSession

\* sessions.get(sessionId): the record, or undefined on a miss.
Lookup(sid) ==
    IF sid \in DOMAIN sessions THEN sessions[sid] ELSE NoSession

AnyIds == Ids

\* transport.sessionId: the SDK draws a random UUID per transport, a value no
\* earlier transport was given.
FreshIds == Ids \ issued

\* --------------------------------------------------------- Open (GET /mcp)
\* One module-level server handed to every session.
sharedCalculatorServer(c) == 1

\* createCalculatorServer(): a new Server per call; the instance made by the
\* c-th handleSseRequest is named c.
createCalculatorServer(c) == c

\* new SSEServerTransport(postPath, res): a new transport per call, named
\* after the connection whose response it wraps.
newTransport(c) == c

\* handleSseRequest up to its await: a fresh server and transport, the
\* transport's sessionId, the table insert, the onclose and onerror handlers,
\* and the call of server.connect(transport).
handleSseRequest(c) ==
    /\ ssePc[c] = "new"
    /\ \E sid \in FreshIds :
        /\ connSid' = [connSid EXCEPT ![c] = sid]
        /\ issued' = issued \cup {sid}
        /\ sessions' = SetSession(sessions, sid,
                      [server |-> createCalculatorServer(c),
                       transport |-> newTransport(c)])
    /\ removedAtOpen' = [removedAtOpen EXCEPT ![c] = removed]
    /\ ssePc' = [ssePc EXCEPT ![c] = "connecting"]
    /\ UNCHANGED <<removed, sseStatus, headAtFail, sseHeads, transportVars,
                   post>>
    /\ UNCHANGED <<toolVars, httpVars, widgetVars>>

\* A handleSseRequest that registers the session again once connect has
\* resolved.
connectResolvedRegister(c) ==
    /\ ssePc[c] = "connecting"
    /\ ssePc' = [ssePc EXCEPT ![c] = "connected"]
    /\ sseStatus' = [sseStatus EXCEPT ![c] = 200]
    /\ sseHeads' = [sseHeads EXCEPT ![c] = @ + 1]
    /\ sessions' = SetSession(sessions, connSid[c],
                      [server |-> createCalculatorServer(c),
                       transport |-> newTransport(c)])
    /\ UNCHANGED <<issued, removed, connSid, headAtFail,
                   removedAtOpen, transportVars, post>>
    /\ UNCHANGED <<toolVars, httpVars, widgetVars>>

\* await server.connect(transport) resolves: the transport has written the
\* 200 event-stream head; handleSseRequest returns.
connectResolved(c) ==
    /\ ssePc[c] = "connecting"
    /\ ssePc' = [ssePc EXCEPT ![c] = "connected"]
    /\ sseStatus' = [sseStatus EXCEPT ![c] = 200]
    /\ sseHeads' = [sseHeads EXCEPT ![c] = @ + 1]
    /\ UNCHANGED <<sessions, issued, removed, connSid, headAtFail,
                   removedAtOpen, transportVars, post>>
    /\ UNCHANGED <<toolVars, httpVars, widgetVars>>

\* A catch block that writes its 500 without testing res.headersSent.
connectRejectedUnguarded(c, headersSent) ==
    /\ ssePc[c] = "connecting"
    /\ ssePc' = [ssePc EXCEPT ![c] = "failed"]
    /\ sessions' = DeleteSession(sessions, connSid[c])
    /\ removed' = removed \cup (DOMAIN sessions \ DOMAIN sessions')
    /\ headAtFail' = [headAtFail EXCEPT ![c] = headersSent]
    /\ sseStatus' = [sseStatus EXCEPT ![c] = IF headersSent THEN 200 ELSE 500]
    /\ sseHeads' = [sseHeads EXCEPT ![c] =
                        @ + (IF headersSent THEN 1 ELSE 0) + 1]
    /\ UNCHANGED <<issued, connSid, removedAtOpen, transportVars, post>>
    /\ UNCHANGED <<toolVars, httpVars, widgetVars>>

\* await server.connect(transport) rejects, the catch block runs:
\* sessions.delete(sessionId), and 500 unless the response head is already
\* out (headersSent: the transport wrote its 200 head before it failed).
connectRejected(c, headersSent) ==
    /\ ssePc[c] = "connecting"
    /\ ssePc' = [ssePc EXCEPT ![c] = "failed"]
    /\ sessions' = DeleteSession(sessions, connSid[c])
    /\ removed' = removed \cup (DOMAIN sessions \ DOMAIN sessions')
    /\ headAtFail' = [headAtFail EXCEPT ![c] = headersSent]
    /\ sseStatus' = [sseStatus EXCEPT ![c] = IF headersSent THEN 200 ELSE 500]
    /\ sseHeads' = [sseHeads EXCEPT ![c] =
                        @ + (IF headersSent THEN 1 ELSE 0)
                          + (IF headersSent THEN 0 ELSE 1)]
    /\ UNCHANGED <<issued, connSid, removedAtOpen, transportVars, post>>
    /\ UNCHANGED <<toolVars, httpVars, widgetVars>>

\* ------------------------------------------------------------------ Close
\* A run of the onclose handler that reads the record it is about to drop
\* raises when the record is gone.
oncloseDeref(c) ==
    /\ ssePc[c] # "new"
    /\ closeCalls[c] < MaxCloseCalls
    /\ closeErrors' = IF connSid[c] \in DOMAIN sessions THEN closeErrors
                      ELSE closeErrors + 1
    /\ sessions' = DeleteSession(sessions, connSid[c])
    /\ removed' = removed \cup (DOMAIN sessions \ DOMAIN sessions')
    /\ tClosed' = [tClosed EXCEPT ![c] = TRUE]
    /\ closeCalls' = [closeCalls EXCEPT ![c] = @ + 1]
    /\ releasing' = [releasing EXCEPT ![c] = @ + 1]
    /\ UNCHANGED <<issued, sseVars, tErrored, post>>
    /\ UNCHANGED <<toolVars, httpVars, widgetVars>>

\* transport.onclose up to its await: sessions.delete(sessionId), then the
\* call of server.close().  The transport may notify close more than once
\* (the peer hangs up; server.close() closes the transport again).
onclose(c) ==
    /\ ssePc[c] # "new"
    /\ closeCalls[c] < MaxCloseCalls
    /\ sessions' = DeleteSession(sessions, connSid[c])
    /\ removed' = removed \cup (DOMAIN sessions \ DOMAIN sessions')
    /\ tClosed' = [tClosed EXCEPT ![c] = TRUE]
    /\ closeCalls' = [closeCalls EXCEPT ![c] = @ + 1]
    /\ releasing' = [releasing EXCEPT ![c] = @ + 1]
    /\ UNCHANGED <<issued, sseVars, tErrored, closeErrors, post>>
    /\ UNCHANGED <<toolVars, httpVars, widgetVars>>

\* await server.close() settles; the onclose handler returns.
serverClosed(c) ==
    /\ releasing[c] > 0
    /\ releasing' = [releasing EXCEPT ![c] = @ - 1]
    /\ UNCHANGED <<sessions, issued, removed, sseVars, tClosed, tErrored,
                   closeCalls, closeErrors, post>>
    /\ UNCHANGED <<toolVars, httpVars, widgetVars>>

\* transport.onerror: logs the error and nothing else.
onerror(c) ==
    /\ ssePc[c] # "new"
    /\ ~tErrored[c]
    /\ tErrored' = [tErrored EXCEPT ![c] = TRUE]
    /\ UNCHANGED <<sessions, issued, removed, sseVars, tClosed, closeCalls,
                   releasing, closeErrors, post>>
    /\ UNCHANGED <<toolVars, httpVars, widgetVars>>

\* ------------------------------------------- Dispatch (POST /mcp/messages)
\* A guard that rejects only the empty parameter and lets null through.
IsEmptyOnly(p) == p = EmptyParam

\* !sessionId: true of null and of the empty string.
IsMissing(p) == p \in {NullParam, EmptyParam}

\* Statuses the transport's own handlePostMessage writes: 202 accepted, 400
\* for a body it cannot read; 500, and a throw, when its stream is not
\* established.
TransportOk == {202, 400}
TransportFail == {500}

\* handlePostMessage up to its await: 400 on a missing sessionId, else
\* sessions.get; 404 on a miss, else the call of
\* session.transport.handlePostMessage(req, res).
handlePostMessage(r, p) ==
    /\ post[r].pc = "new"
    /\ LET base == [post[r] EXCEPT !.param = p,
                                   !.wasKey = p \in DOMAIN sessions]
           session == Lookup(p)
       IN post' = [post EXCEPT ![r] =
            IF IsMissing(p)
            THEN [base EXCEPT !.pc = "done", !.status = 400, !.heads = 1]
            ELSE IF session = NoSession
            THEN [base EXCEPT !.pc = "done", !.status = 404, !.heads = 1,
                              !.lookedUp = TRUE]
            ELSE [base EXCEPT !.pc = "forwarding", !.lookedUp = TRUE,
                              !.fwdTo = session.transport]]
    /\ UNCHANGED <<sessions, issued, removed, sseVars, transportVars>>
    /\ UNCHANGED <<toolVars, httpVars, widgetVars>>

\* A catch block that also drops the session whose forward threw.
forwardSettledEvict(r, threw, headersSent, st) ==
    /\ post[r].pc = "forwarding"
    /\ IF threw THEN (headersSent => st \in TransportFail)
                ELSE headersSent /\ st \in TransportOk
    /\ post' = [post EXCEPT ![r] =
            [@ EXCEPT !.pc = "done", !.threw = threw,
                      !.headAtCatch = threw /\ headersSent,
                      !.heads = (IF headersSent THEN 1 ELSE 0)
                                + (IF threw /\ ~headersSent THEN 1 ELSE 0),
                      !.status = IF headersSent THEN st ELSE 500]]
    /\ sessions' = IF threw THEN DeleteSession(sessions, post[r].param)
                   ELSE sessions
    /\ UNCHANGED <<issued, removed, sseVars, transportVars>>
    /\ UNCHANGED <<toolVars, httpVars, widgetVars>>

\* await session.transport.handlePostMessage(req, res) settles.  Resolved:
\* the transport has answered with st.  Rejected: the catch block answers 500
\* unless the transport already sent a head (headersSent, status st).
forwardSettled(r, threw, headersSent, st) ==
    /\ post[r].pc = "forwarding"
    /\ IF threw THEN (headersSent => st \in TransportFail)
                ELSE headersSent /\ st \in TransportOk
    /\ post' = [post EXCEPT ![r] =
            [@ EXCEPT !.pc = "done", !.threw = threw,
                      !.headAtCatch = threw /\ headersSent,
                      !.heads = (IF headersSent THEN 1 ELSE 0)
                                + (IF threw /\ ~headersSent THEN 1 ELSE 0),
                      !.status = IF headersSent THEN st ELSE 500]]
    /\ UNCHANGED <<sessions, issued, removed, sseVars, transportVars>>
    /\ UNCHANGED <<toolVars, httpVars, widgetVars>>

\* ------------------------------------------------------------------ system
Next ==
    \/ \E c \in Conns : handleSseRequest(c)
    \/ \E c \in Conns : connectResolved(c)
    \/ \E c \in Conns, headersSent \in BOOLEAN : connectRejected(c, headersSent)
    \/ \E c \in Conns : onclose(c)
    \/ \E c \in Conns : serverClosed(c)
    \/ \E c \in Conns : onerror(c)
    \/ \E r \in Reqs, p \in Params : handlePostMessage(r, p)
    \/ \E r \in Reqs, threw \in BOOLEAN, headersSent \in BOOLEAN,
          st \in TransportOk \cup TransportFail :
            forwardSettled(r, threw, headersSent, st)

Spec == Init /\ [][Next]_vars

\* ---------------------------------------------------- catalog (101-288)
\* widgetDescriptorMeta(widget).
widgetDescriptorMeta(widget) ==
    [outputTemplate |-> widget.templateUri,
     invoking |-> widget.invoking,
     invoked |-> widget.invoked,
     widgetAccessible |-> TRUE,
     widgetDomain |-> "WIDGET_DOMAIN",
     connect_domains |-> <<"WIDGET_DOMAIN">>,
     resource_domains |-> <<"WIDGET_DOMAIN">>,
     widgetPrefersBorder |-> TRUE]

\* const tools = widgets.map(...).
tools ==
    [i \in DOMAIN widgets |->
        [name |-> widgets[i].id,
         inputSchema |-> IF widgets[i].id = "super-calculator"
                         THEN "superCalculatorInputSchema"
                         ELSE "basicToolInputSchema",
         title |-> widgets[i].title,
         meta |-> widgetDescriptorMeta(widgets[i]),
         annotations |-> [destructiveHint |-> FALSE, openWorldHint |-> FALSE,
                          readOnlyHint |-> TRUE]]]

\* const resources = widgets.map(...).
resources ==
    [i \in DOMAIN widgets |->
        [uri |-> widgets[i].templateUri,
         name |-> widgets[i].title,
         mimeType |-> "text/html+skybridge",
         meta |-> widgetDescriptorMeta(widgets[i])]]

\* const resourceTemplates = widgets.map(...).
resourceTemplates ==
    [i \in DOMAIN widgets |->
        [uriTemplate |-> widgets[i].templateUri,
         name |-> widgets[i].title,
         mimeType |-> "text/html+skybridge",
         meta |-> widgetDescriptorMeta(widgets[i])]]

\* ------------------------------------------- protocol requests (308-445)
MaxFileChanges == 1  \* changes to the widget files after startup

\* Inputs of the requests.
ToolNames == WidgetIds \cup {"sqrt"}
ArgsA == {Num(0, 1), Num(10, 1), Num(MaxDouble, 1), StrX, Undefined}
ArgsB == {Num(0, 1), Num(4, 1), Num(1, 2), StrX, Undefined}
ArgOps == Operations \cup {"power", NoOperation}
ToolArgs == [a : ArgsA, b : ArgsB, operation : ArgOps]
ResourceUris ==
    WidgetUris \cup {"ui://widget/sqrt.html", "ui://widget/add",
                     "UI://WIDGET/ADD.HTML"}

\* A CallTool handler that also stores what it computed in the registry.
callToolCaching(name, args) ==
    /\ reply = NoReply
    /\ reply' = [kind |-> "CallTool", name |-> name, args |-> args,
                 out |-> CallTool(widgetHtml, name, args)]
    /\ widgetHtml' = [w \in WidgetIds |->
                        IF w = name THEN <<"cached">> ELSE widgetHtml[w]]
    /\ UNCHANGED <<disk, fileChanges, sessionVars, httpVars, widgetVars>>

\* The CallTool request handler.  Every session's server registers the same
\* handler over the module-level registry; it reads the request only.  A
\* handler runs to its return without suspending; `reply` holds what it
\* returned until the server has sent it (replySent).
callTool(name, args) ==
    /\ reply = NoReply
    /\ reply' = [kind |-> "CallTool", name |-> name, args |-> args,
                 out |-> CallTool(widgetHtml, name, args)]
    /\ UNCHANGED <<disk, widgetHtml, fileChanges, sessionVars, httpVars, widgetVars>>

\* A ReadResource handler that answers with the first widget's descriptor
\* metadata.
readResourceFirstMeta(uri) ==
    LET widget == widgetsByUri(widgetHtml, uri)
        html == readWidgetHtml(disk, widget.id)
    IN  /\ reply = NoReply
        /\ IF widget = NoWidget
           THEN /\ widgetHtml' = widgetHtml
                /\ reply' = [kind |-> "ReadResource", uri |-> uri,
                             out |-> [error |-> "Unknown resource"]]
           ELSE /\ widgetHtml' = [widgetHtml EXCEPT ![widget.id] = html]
                /\ reply' = [kind |-> "ReadResource", uri |-> uri,
                             out |-> [error |-> "",
                                      uri |-> widget.templateUri,
                                      mimeType |-> "text/html+skybridge",
                                      text |-> html,
                                      meta |-> widgetDescriptorMeta(widgets[1])]]
        /\ UNCHANGED <<disk, fileChanges, sessionVars, httpVars, widgetVars>>

\* The ReadResource request handler: widgetsByUri.get; on a hit it assigns
\* the re-read file to widget.html and returns it.
readResource(uri) ==
    LET widget == widgetsByUri(widgetHtml, uri)
        html == readWidgetHtml(disk, widget.id)
    IN  /\ reply = NoReply
        /\ IF widget = NoWidget
           THEN /\ widgetHtml' = widgetHtml
                /\ reply' = [kind |-> "ReadResource", uri |-> uri,
                             out |-> [error |-> "Unknown resource"]]
           ELSE /\ widgetHtml' = [widgetHtml EXCEPT ![widget.id] = html]
                /\ reply' = [kind |-> "ReadResource", uri |-> uri,
                             out |-> [error |-> "",
                                      uri |-> widget.templateUri,
                                      mimeType |-> "text/html+skybridge",
                                      text |-> html,
                                      meta |-> widgetDescriptorMeta(widget)]]
        /\ UNCHANGED <<disk, fileChanges, sessionVars, httpVars, widgetVars>>

\* A ListTools handler that leaves out the tools whose widget record was
\* reassigned since startup.
listToolsUnchanged ==
    /\ reply = NoReply
    /\ reply' = [kind |-> "ListTools",
                 out |-> [i \in {k \in DOMAIN widgets :
                                    widgetHtml[widgets[k].id]
                                        = StartHtml[widgets[k].id]}
                            |-> tools[i]]]
    /\ UNCHANGED <<disk, widgetHtml, fileChanges, sessionVars, httpVars, widgetVars>>

\* The three list handlers return the collections built at startup.
listTools ==
    /\ reply = NoReply
    /\ reply' = [kind |-> "ListTools", out |-> tools]
    /\ UNCHANGED <<disk, widgetHtml, fileChanges, sessionVars, httpVars, widgetVars>>

listResources ==
    /\ reply = NoReply
    /\ reply' = [kind |-> "ListResources", out |-> resources]
    /\ UNCHANGED <<disk, widgetHtml, fileChanges, sessionVars, httpVars, widgetVars>>

listResourceTemplates ==
    /\ reply = NoReply
    /\ reply' = [kind |-> "ListResourceTemplates", out |-> resourceTemplates]
    /\ UNCHANGED <<disk, widgetHtml, fileChanges, sessionVars, httpVars, widgetVars>>

\* The environment rewrites, empties, deletes or restores a widget's file.
fileChanged(w, f) ==
    /\ fileChanges < MaxFileChanges
    /\ f # disk[w]
    /\ disk' = [disk EXCEPT ![w] = f]
    /\ fileChanges' = fileChanges + 1
    /\ UNCHANGED <<widgetHtml, reply, sessionVars, httpVars, widgetVars>>

\* The server has sent the pending reply to the client.
replySent ==
    /\ reply # NoReply
    /\ reply' = NoReply
    /\ UNCHANGED <<disk, widgetHtml, fileChanges, sessionVars, httpVars, widgetVars>>

ToolsNext ==
    \/ \E name \in ToolNames, args \in ToolArgs : callTool(name, args)
    \/ \E uri \in ResourceUris : readResource(uri)
    \/ listTools
    \/ listResources
    \/ listResourceTemplates
    \/ \E w \in WidgetIds, f \in FileStates : fileChanged(w, f)
    \/ replySent

SpecTools == Init /\ [][ToolsNext]_vars

\* The protocol requests interleaved with the opening and the closing of
\* sessions: CallTool on a few arguments, ReadResource and the changes of
\* the files, next to Open (handleSseRequest, connect) and Close (onclose,
\* the awaited server.close()).
FewNames == {"divide", "super-calculator", "sqrt"}
FewArgs ==
    {args \in ToolArgs : args.a = Num(10, 1) /\ args.operation = "divide"}

ServerNext ==
    \/ \E name \in FewNames, args \in FewArgs : callTool(name, args)
    \/ \E uri \in ResourceUris : readResource(uri)
    \/ \E w \in WidgetIds, f \in FileStates : fileChanged(w, f)
    \/ replySent
    \/ \E c \in Conns : handleSseRequest(c)
    \/ \E c \in Conns : connectResolved(c)
    \/ \E c \in Conns : onclose(c)
    \/ \E c \in Conns : serverClosed(c)

SpecServer == Init /\ [][ServerNext]_vars

\* ------------------------------------------------------------- startup
\* The module body that builds the registry, run on any set of widget
\* files: each of the five may be missing, empty or present.
NotBuilt == [w \in WidgetIds |-> <<"none">>]

InitStartup ==
    /\ InitSessions
    /\ InitHttp
    /\ InitWidget
    /\ disk \in [WidgetIds -> FileStates]
    /\ widgetHtml = NotBuilt
    /\ fileChanges = 0
    /\ reply = NoReply

\* const widgets = [...]: readWidgetHtml is called once for each widget.
buildWidgets ==
    /\ widgetHtml = NotBuilt
    /\ widgetHtml' = [w \in WidgetIds |-> readWidgetHtml(disk, w)]
    /\ UNCHANGED <<disk, fileChanges, reply, sessionVars, httpVars, widgetVars>>

StartupNext ==
    \/ buildWidgets
    \/ \E uri \in ResourceUris : widgetHtml # NotBuilt /\ readResource(uri)
    \/ widgetHtml # NotBuilt /\ listResources
    \/ replySent

SpecStartup == InitStartup /\ [][StartupNext]_vars

\* --------------------------------------------- HTTP dispatcher (538-796)
\* res.writeHead(status).end(text): a response that is complete.
Respond(status, text) ==
    [pc |-> "done", status |-> status, text |-> text, json |-> NoJson,
     served |-> NoFile, contentType |-> "", heads |-> 1]

\* fs.createReadStream(file).pipe(res) under the implicit status 200: the
\* response ends when the stream does.
Stream(from, path, contentType) ==
    [pc |-> "streaming", status |-> 200, text |-> "", json |-> NoJson,
     served |-> [from |-> from, path |-> path], contentType |-> contentType,
     heads |-> 0]

\* req.method === "OPTIONS".
IsPreflight(method) == method = "OPTIONS"

\* A listener whose last resort answers 200.
FoundAnyway == Respond(200, "OK")

\* 404 for everything else (784-786).
NotFound == Respond(404, "Not Found")

\* The test of the static branch (712-726): a name that is not empty and
\* holds no "..", resolving inside ASSETS_DIR to something that exists and
\* is a regular file.
StaticHit(files, fileName) ==
    /\ fileName # <<Empty>>
    /\ ~includesDotDot(fileName)
    /\ LET normalized == Normalize(fileName, <<>>)
       IN /\ normalized.within
          /\ FileKind(files, normalized.path) # "absent"
          /\ IsFile(FileKind(files, normalized.path))

\* The request listener from its first line to its first suspension, for a
\* request that is not handed to handleSseRequest or handlePostMessage.
\* `present`: the file the root or the challenge route looks for exists.
Dispatch(files, method, target, present) ==
    IF ~UrlParses(target) THEN Respond(500, "Internal Server Error")
    ELSE LET pathname == Pathname(target)
         IN  IF IsPreflight(method) THEN Respond(204, "")
             ELSE IF method = "POST" /\ pathname = calculatePath
             THEN [pc |-> "reading", status |-> 0, text |-> "",
                   json |-> NoJson, served |-> NoFile,
                   contentType |-> "application/json", heads |-> 0]
             ELSE IF /\ method = "GET"
                     /\ StartsWithAssets(pathname)
                     /\ StaticHit(files, FileNameOf(pathname))
             THEN Stream("assets", Normalize(FileNameOf(pathname), <<>>).path,
                         ContentTypeOf(FileNameOf(pathname)))
             ELSE IF method = "GET" /\ pathname = rootPath
             THEN IF present THEN Stream("root", <<Seg("index.html")>>,
                                         "text/html")
                  ELSE Respond(404, "index.html not found")
             ELSE IF method = "GET" /\ pathname = challengePath
             THEN IF present THEN Stream("root", challengePath, "text/plain")
                  ELSE Respond(404, "Verification file not found")
             ELSE NotFound

\* The requests the listener hands to handleSseRequest and to
\* handlePostMessage: they are the actions of the session table.
SessionRoute(method, target) ==
    /\ UrlParses(target)
    /\ ~IsPreflight(method)
    /\ \/ method = "GET" /\ Pathname(target) = ssePath
       \/ method = "POST" /\ Pathname(target) = postPath

httpRequest(h, method, target, present) ==
    /\ ~crashed
    /\ http[h].pc = "new"
    /\ ~SessionRoute(method, target)
    /\ LET r == Dispatch(disk, method, target, present)
       IN http' = [http EXCEPT ![h] =
                    [pc |-> r.pc, method |-> method, target |-> target,
                     status |-> r.status, text |-> r.text, json |-> r.json,
                     served |-> r.served, contentType |-> r.contentType,
                     body |-> NoBody, heads |-> r.heads]]
    /\ UNCHANGED <<crashed, sessionVars, toolVars, widgetVars>>

\* The bodies POSTed to /calculate: text that is no JSON, the JSON null, a
\* JSON number, or an object whose a and b are numbers, strings or missing.
CalcArgs == {Num(1, 1), Num(MaxDouble, 1), StrX, Undefined}
Bodies ==
    {[kind |-> k, a |-> Undefined, b |-> Undefined] :
        k \in {"garbage", "null", "scalar"}}
    \cup {[kind |-> "object", a |-> a, b |-> b] : a, b \in CalcArgs}

\* JSON.stringify of a number: null for one that is not finite.
JsonNumber(x) == IF IsFiniteNum(x) THEN x ELSE JsonNull

\* The try block of handleCalculateApi (584-599) on the body read:
\* JSON.parse throws on text that is no JSON, and taking a and b out of
\* null throws too; both land in the catch.  `heads`: the calls of res.writeHead the block makes.
Calculate(body) ==
    IF body.kind \in {"garbage", "null"}
    THEN [status |-> 400, heads |-> 1,
          json |-> [error |-> "Invalid JSON", result |-> Undefined]]
    ELSE IF body.a.t # "number" \/ body.b.t # "number"
    THEN [status |-> 400, heads |-> 1,
          json |-> [error |-> "Invalid inputs", result |-> Undefined]]
    ELSE [status |-> 200, heads |-> 1,
          json |-> [error |-> "",
                    result |-> JsonNumber(JsAdd(body.a, body.b))]]

\* handleCalculateApi once the body has been read.
handleCalculateApi(h, body) ==
    /\ ~crashed
    /\ http[h].pc = "reading"
    /\ LET r == Calculate(body)
       IN http' = [http EXCEPT ![h].pc = "done", ![h].status = r.status,
                               ![h].json = r.json, ![h].body = body,
                               ![h].heads = @ + r.heads]
    /\ UNCHANGED <<crashed, sessionVars, toolVars, widgetVars>>

\* The file streamed may be read: the stream ends and the response with it.
streamEnded(h) ==
    /\ ~crashed
    /\ http[h].pc = "streaming"
    /\ \/ http[h].served.from = "root"
       \/ FileKind(disk, http[h].served.path) = "file"
    /\ http' = [http EXCEPT ![h].pc = "done", ![h].heads = @ + 1]
    /\ UNCHANGED <<crashed, sessionVars, toolVars, widgetVars>>

\* The file streamed may not be read: the read stream emits an error that
\* has no listener, which ends the process with the response open.
streamFailed(h) ==
    /\ ~crashed
    /\ http[h].pc = "streaming"
    /\ http[h].served.from = "assets"
    /\ FileKind(disk, http[h].served.path) = "unreadable"
    /\ crashed' = TRUE
    /\ UNCHANGED <<http, sessionVars, toolVars, widgetVars>>

HttpNext ==
    \/ \E h \in HttpReqs, method \in Methods, target \in Targets,
          present \in BOOLEAN : httpRequest(h, method, target, present)
    \/ \E h \in HttpReqs, body \in Bodies : handleCalculateApi(h, body)
    \/ \E h \in HttpReqs : streamEnded(h)
    \/ \E h \in HttpReqs : streamFailed(h)
    \/ \E c \in Conns : ~crashed /\ handleSseRequest(c)
    \/ \E c \in Conns : ~crashed /\ connectResolved(c)
    \/ \E c \in Conns, headersSent \in BOOLEAN :
          ~crashed /\ connectRejected(c, headersSent)
    \/ \E c \in Conns : ~crashed /\ onclose(c)
    \/ \E c \in Conns : ~crashed /\ serverClosed(c)

SpecHttp == Init /\ [][HttpNext]_vars

\* The listener under the scheduling the event loop gives it: a body being
\* read is read to its end, and a stream that was opened ends or fails.
SpecHttpLive ==
    /\ Init
    /\ [][HttpNext]_vars
    /\ WF_vars(\E h \in HttpReqs, body \in Bodies : handleCalculateApi(h, body))
    /\ WF_vars(\E h \in HttpReqs : streamEnded(h))
    /\ WF_vars(\E h \in HttpReqs : streamFailed(h))

\* ------------------------------------------- the super-calculator widget
MaxPending == 2      \* calls of callTool in flight at once
MaxWideCalcs == 2    \* runs of handleCalculate over the wide inputs
MaxCalcs == 7        \* runs of handleCalculate over the few inputs

\* What an input field holds: the rendering of a number, or nothing.
Numeral(x) == [kind |-> "numeral", value |-> x]

\* parseFloat(text): the number a numeral renders, NaN for the empty text.
parseFloat(text) == IF text.kind = "numeral" THEN text.value ELSE NaN

isNaN(x) == x.t = "number" /\ x.n = 0 /\ x.d = 0

\* A test that never sees a zero divisor.
isDivideByZeroNever(op, numB) == FALSE

\* operation === 'divide' && numB === 0 (59).
isDivideByZero(op, numB) == op = "divide" /\ numB.n = 0 /\ numB.d # 0

\* calculateDirectly(a, b, op) (93-101).
calculateDirectly(a, b, op) ==
    CASE op = "add" -> JsAdd(a, b)
      [] op = "subtract" -> JsSub(a, b)
      [] op = "multiply" -> JsMul(a, b)
      [] op = "divide" -> JsDiv(a, b)
      [] OTHER -> Num(0, 1)

\* What window.openai.callTool resolves with is the host's business.  The
\* host relays what the CallTool handler returned in one of the forms the
\* widget tells apart: the tool result itself, which has no `result` key of
\* its own; its structuredContent, whose result went through JSON; or the
\* rendering of the result as a string.  A handler that failed leaves an
\* object without result.
HostShapes == {"toolResult", "structuredContent", "numeral"}

Relay(shape, r) ==
    IF r.error # "" \/ shape = "toolResult"
    THEN [kind |-> "object", result |-> Undefined, text |-> EmptyText]
    ELSE IF shape = "structuredContent"
    THEN [kind |-> "object",
          result |-> JsonNumber(r.structuredContent.result),
          text |-> EmptyText]
    ELSE [kind |-> "string", result |-> Undefined,
          text |-> Numeral(r.structuredContent.result)]

\* A value that || lets through: a number other than 0 and NaN.
Truthy(v) == v.t = "number" /\ v.n # 0

\* typeof response === 'string' ? parseFloat(response)
\*     : response?.result || calculateDirectly(numA, numB, operation) (74-76).
ResultValue(response, call) ==
    IF response.kind = "string" THEN parseFloat(response.text)
    ELSE IF Truthy(response.result) THEN response.result
    ELSE calculateDirectly(call.a, call.b, call.operation)

\* prev.slice(-5): one entry too many is kept.
LastFive(prev) ==
    IF Len(prev) <= 5 THEN prev ELSE SubSeq(prev, Len(prev) - 4, Len(prev))

\* prev.slice(-4) (82).
LastFour(prev) ==
    IF Len(prev) <= 4 THEN prev ELSE SubSeq(prev, Len(prev) - 3, Len(prev))

Entry(call, resultValue) ==
    [op |-> call.operation, a |-> call.a, b |-> call.b,
     result |-> resultValue]

Shown(path, call) ==
    [path |-> path, a |-> call.a, b |-> call.b, operation |-> call.operation]

\* setResult(resultValue); setHistory(prev => [...prev.slice(-4), entry]);
\* then the finally block (81-90).
Succeeded(w, call, resultValue) ==
    [w EXCEPT !.result = resultValue, !.loading = FALSE,
              !.history = Append(LastFour(@), Entry(call, resultValue))]

\* The fields hold ta, tb and op and handleCalculate runs, by the button or
\* by the Enter key (which does not look at `loading`), up to its first
\* await or to its end.  hasCallTool: window.openai?.callTool is there.
handleCalculate(ta, tb, op, hasCallTool) ==
    LET numA == parseFloat(ta)
        numB == parseFloat(tb)
        call == [a |-> numA, b |-> numB, operation |-> op]
        typed == [superCalculator EXCEPT !.a = ta, !.b = tb, !.operation = op]
    IN  /\ calcs' = calcs + 1
        /\ IF isNaN(numA) \/ isNaN(numB)
           THEN /\ superCalculator' = [typed EXCEPT !.result = NoResult, !.error = ""]
                /\ shown' = Shown("invalid", call)
                /\ UNCHANGED <<calling, completed>>
           ELSE IF isDivideByZero(op, numB)
           THEN /\ superCalculator' = [typed EXCEPT !.result = NoResult,
                                           !.error = "Cannot divide by zero!"]
                /\ shown' = Shown("refused", call)
                /\ UNCHANGED <<calling, completed>>
           ELSE IF hasCallTool
           THEN /\ Len(calling) < MaxPending
                /\ superCalculator' = [typed EXCEPT !.error = "", !.loading = TRUE]
                /\ calling' = Append(calling, call)
                /\ UNCHANGED <<completed, shown>>
           ELSE LET resultValue == calculateDirectly(numA, numB, op)
                IN /\ superCalculator' = Succeeded([typed EXCEPT !.error = ""], call,
                                          resultValue)
                   /\ completed' = Append(completed, Entry(call, resultValue))
                   /\ shown' = Shown("direct", call)
                   /\ UNCHANGED calling
        /\ UNCHANGED <<sessionVars, toolVars, httpVars>>

Without(seq, i) == SubSeq(seq, 1, i - 1) \o SubSeq(seq, i + 1, Len(seq))

\* await window.openai.callTool(operation, {a, b}) resolves: the call went
\* to the tool named after the operation.
callToolResolved(i, shape) ==
    /\ i \in DOMAIN calling
    /\ LET call == calling[i]
           r == CallTool(widgetHtml, call.operation,
                         [a |-> call.a, b |-> call.b,
                          operation |-> NoOperation])
           resultValue == ResultValue(Relay(shape, r), call)
       IN /\ superCalculator' = Succeeded(superCalculator, call, resultValue)
          /\ completed' = Append(completed, Entry(call, resultValue))
          /\ shown' = Shown("callback", call)
    /\ calling' = Without(calling, i)
    /\ UNCHANGED <<calcs, sessionVars, toolVars, httpVars>>

\* The call rejects and the catch block runs (84-90): the result computed
\* directly is shown, the history is left alone.
callToolRejected(i) ==
    /\ i \in DOMAIN calling
    /\ LET call == calling[i]
       IN /\ superCalculator' = [superCalculator EXCEPT
                !.result = calculateDirectly(call.a, call.b, call.operation),
                !.loading = FALSE]
          /\ shown' = Shown("fallback", call)
    /\ calling' = Without(calling, i)
    /\ UNCHANGED <<calcs, completed, sessionVars, toolVars, httpVars>>

\* The inputs of the parity check: zero, an ordinary number, a fraction,
\* the largest double and an empty field, under the four operations.
WideA == {Numeral(Num(0, 1)), Numeral(Num(10, 1)), Numeral(Num(MaxDouble, 1)),
          EmptyText}
WideB == {Numeral(Num(0, 1)), Numeral(Num(4, 1)), Numeral(Num(1, 2)),
          EmptyText}

WidgetNext ==
    \/ \E ta \in WideA, tb \in WideB, op \in Operations,
          hasCallTool \in BOOLEAN :
            calcs < MaxWideCalcs /\ handleCalculate(ta, tb, op, hasCallTool)
    \/ \E i \in 1..MaxPending, shape \in HostShapes : callToolResolved(i, shape)
    \/ \E i \in 1..MaxPending : callToolRejected(i)

SpecWidget == Init /\ [][WidgetNext]_vars

\* The inputs of the history check: three calculations that succeed, one
\* that is refused and one that is invalid, run up to MaxCalcs times.
FewA == {Numeral(Num(10, 1)), EmptyText}
FewB == {Numeral(Num(0, 1)), Numeral(Num(4, 1))}
FewOps == {"add", "divide"}

HistoryNext ==
    \/ \E ta \in FewA, tb \in FewB, op \in FewOps, hasCallTool \in BOOLEAN :
            calcs < MaxCalcs /\ handleCalculate(ta, tb, op, hasCallTool)
    \/ \E i \in 1..MaxPending : callToolResolved(i, "structuredContent")
    \/ \E i \in 1..MaxPending : callToolRejected(i)

SpecHistory == Init /\ [][HistoryNext]_vars

\* ------------------------------------------------------------- properties
\* A connection whose session is live: registered by Open, connect not
\* rejected, transport not closed.
Live(c) == ssePc[c] \in {"connecting", "connected"} /\ ~tClosed[c]

Opened(c) == ssePc[c] # "new"

Handled(r) == post[r].pc # "new"

\* C1 as stated: every POST whose sessionId parameter is given and is not a
\* key of the table is answered 404 and forwarded to no transport.
C1_AnyUnknownIs404 ==
    \A r \in Reqs :
        (Handled(r) /\ post[r].param # NullParam /\ ~post[r].wasKey)
            => (post[r].status = 404 /\ post[r].fwdTo = NoTransport)

\* C1 amended: every POST whose sessionId parameter is a non-empty string
\* that is not a key of the table when handlePostMessage looks it up is
\* answered 404 and forwarded to no transport.  (The empty string never
\* reaches the lookup: it is answered 400 as a missing parameter.)
C1_UnknownSessionIs404 ==
    \A r \in Reqs :
        (Handled(r) /\ ~IsMissing(post[r].param) /\ ~post[r].wasKey)
            => /\ post[r].lookedUp
               /\ post[r].status = 404
               /\ post[r].fwdTo = NoTransport

\* A POST naming the id of a session that was registered and then removed
\* got 404.
C1_Witness ==
    \E r \in Reqs :
        /\ post[r].param \in removed
        /\ ~post[r].wasKey
        /\ post[r].status = 404

\* C2: no step of handlePostMessage (the 400, the 404, the forward, the
\* settling of the forward with or without a throw) changes the set of keys
\* of the session table.
C2_DispatchKeepsKeys ==
    [][(post' # post) => (DOMAIN sessions' = DOMAIN sessions)]_vars

\* A forward threw, the catch block answered 500, and the session is still
\* registered.
C2_Witness ==
    \E r \in Reqs :
        /\ post[r].pc = "done"
        /\ post[r].threw
        /\ post[r].status = 500
        /\ post[r].param \in DOMAIN sessions

\* C3: the connections opened so far have pairwise distinct session ids;
\* the table has exactly one entry per live session, holding that session's
\* own server and transport, whatever was closed meanwhile.
C3_DistinctIndependentSessions ==
    /\ \A c1, c2 \in Conns :
        (Opened(c1) /\ Opened(c2) /\ c1 # c2) => connSid[c1] # connSid[c2]
    /\ \A c \in Conns :
        Live(c) => /\ connSid[c] \in DOMAIN sessions
                   /\ sessions[connSid[c]] = [server |-> c, transport |-> c]
    /\ Cardinality(DOMAIN sessions) = Cardinality({c \in Conns : Live(c)})

\* Every connection was opened, one of them has closed, and every other one
\* is still registered.
C3_Witness ==
    /\ \A c \in Conns : Opened(c)
    /\ \E c \in Conns :
        /\ tClosed[c]
        /\ connSid[c] \notin DOMAIN sessions
        /\ \A d \in Conns \ {c} : Live(d) /\ connSid[d] \in DOMAIN sessions

\* C4: no session id belongs to two live sessions, and no Open registers an
\* id that had been removed from the table before it.
C4_OneSessionPerIdNoReuse ==
    /\ \A s \in Ids : Cardinality({c \in Conns : Live(c) /\ connSid[c] = s}) <= 1
    /\ \A c \in Conns : Opened(c) => connSid[c] \notin removedAtOpen[c]
    /\ removed \cap DOMAIN sessions = {}

\* A session was opened after another one's id had been removed, and is
\* registered.
C4_Witness ==
    \E c \in Conns :
        /\ removedAtOpen[c] # {}
        /\ connSid[c] \in DOMAIN sessions

\* C5: whenever handlePostMessage forwards a request to a transport, that
\* transport's session is in the table and the transport has not notified
\* close: the lookup and the forward are one non-suspending step.
C5_NoForwardToRemoved ==
    [][\A r \in Reqs :
        (post[r].fwdTo = NoTransport /\ post'[r].fwdTo # NoTransport)
            => LET t == post'[r].fwdTo
               IN /\ connSid[t] \in DOMAIN sessions
                  /\ sessions[connSid[t]].transport = t
                  /\ connSid[t] \notin removed
                  /\ ~tClosed[t]]_vars

\* A Close ran while a forward made earlier was still awaited.
C5_Witness ==
    \E r \in Reqs :
        /\ post[r].pc = "forwarding"
        /\ tClosed[post[r].fwdTo]
        /\ connSid[post[r].fwdTo] \in removed

\* C6 as stated: every id in the table has a transport that is not null, not
\* closed and not errored.
C6_TableTransportsAlive ==
    \A s \in DOMAIN sessions :
        LET t == sessions[s].transport
        IN t # NoTransport /\ ~tClosed[t] /\ ~tErrored[t]

\* C7 as stated: once a session's transport has notified an error, the
\* session's id is not in the table.
C7_ErrorRemovesSession ==
    \A c \in Conns : tErrored[c] => connSid[c] \notin DOMAIN sessions

\* C8 as stated: when connect has failed and handleSseRequest has returned,
\* the session id is not in the table and the response status is 5xx.
C8_FailedConnectAlways5xx ==
    \A c \in Conns :
        ssePc[c] = "failed"
            => (connSid[c] \notin DOMAIN sessions /\ sseStatus[c] >= 500)

\* C8 amended: when connect has failed and handleSseRequest has returned,
\* the session id is not in the table, and the response status is 500
\* unless the response head had already been sent when connect failed.
C8_FailedConnectUnregistered ==
    \A c \in Conns :
        ssePc[c] = "failed"
            => /\ connSid[c] \notin DOMAIN sessions
               /\ ~headAtFail[c] => sseStatus[c] = 500

\* A connect failed before any head was sent and the client got 500.
C8_Witness ==
    \E c \in Conns :
        /\ ssePc[c] = "failed"
        /\ ~headAtFail[c]
        /\ sseStatus[c] = 500
        /\ connSid[c] \in removed

\* C9: a run of the onclose handler for a session that is no longer in the
\* table leaves the table as it was and raises no error.
C9_CloseIdempotent ==
    [][\A c \in Conns :
        (closeCalls'[c] = closeCalls[c] + 1 /\ connSid[c] \notin DOMAIN sessions)
            => (sessions' = sessions /\ closeErrors' = closeErrors)]_vars

\* A session was closed twice while another session stayed registered, and
\* no handler raised.
C9_Witness ==
    \E c \in Conns :
        /\ closeCalls[c] >= 2
        /\ closeErrors = 0
        /\ \E d \in Conns \ {c} : connSid[d] \in DOMAIN sessions

\* C10: a POST without the sessionId parameter is answered 400 without a
\* table lookup and is forwarded to no transport.
C10_MissingSessionIdIs400 ==
    \A r \in Reqs :
        (Handled(r) /\ post[r].param = NullParam)
            => /\ post[r].status = 400
               /\ ~post[r].lookedUp
               /\ post[r].fwdTo = NoTransport

\* A POST without the parameter got 400 while a session was registered.
C10_Witness ==
    \E r \in Reqs :
        /\ post[r].pc = "done"
        /\ post[r].param = NullParam
        /\ post[r].status = 400
        /\ DOMAIN sessions # {}

\* C11: a handled POST was either rejected with 400 or 404 and forwarded to
\* nobody, or forwarded to the transport whose sessionId is the one the POST
\* named; never to the transport of another session.
C11_DeliveredToOwnTransport ==
    \A r \in Reqs :
        Handled(r) =>
            \/ post[r].fwdTo = NoTransport /\ post[r].status \in {400, 404}
            \/ /\ post[r].fwdTo # NoTransport
               /\ connSid[post[r].fwdTo] = post[r].param

\* Two sessions were registered when a POST naming the later-keyed one was
\* forwarded to that session's transport.
C11_Witness ==
    \E r \in Reqs :
        /\ post[r].fwdTo # NoTransport
        /\ connSid[post[r].fwdTo] = post[r].param
        /\ \E s \in DOMAIN sessions : s < post[r].param

\* C12: no two entries of the session table hold the same server instance
\* or the same transport.
C12_ExclusiveServerAndTransport ==
    \A s1, s2 \in DOMAIN sessions :
        s1 # s2 => /\ sessions[s1].server # sessions[s2].server
                   /\ sessions[s1].transport # sessions[s2].transport

\* Two sessions are registered at once.
C12_Witness ==
    \E s1, s2 \in DOMAIN sessions : s1 # s2

\* Where a session stands: 0 not opened, 1 Connecting (registered, connect
\* pending), 2 Open (registered, connect resolved), 3 Closed (opened and no
\* longer in the table).
SessionStage(c) ==
    IF ~Opened(c) THEN 0
    ELSE IF connSid[c] \notin DOMAIN sessions THEN 3
    ELSE IF ssePc[c] = "connecting" THEN 1 ELSE 2

\* The same, after a step.
SessionStageNext(c) ==
    IF ssePc'[c] = "new" THEN 0
    ELSE IF connSid'[c] \notin DOMAIN sessions' THEN 3
    ELSE IF ssePc'[c] = "connecting" THEN 1 ELSE 2

\* C13: a session's stage never decreases; in particular a Closed session
\* stays Closed.
C13_StagesOnlyForward ==
    [][\A c \in Conns : SessionStageNext(c) >= SessionStage(c)]_vars

\* A session was closed while connecting, and its connect then resolved: it
\* is still Closed.
C13_Witness ==
    \E c \in Conns :
        /\ ssePc[c] = "connected"
        /\ tClosed[c]
        /\ SessionStage(c) = 3

\* C14 as stated: after the registry is built no protocol operation changes
\* a field of a widget record; the html field of every record is the one
\* the registry was built with.
C14_WidgetsImmutable ==
    \A w \in WidgetIds : widgetHtml[w] = StartHtml[w]

\* The last request handled was a CallTool.
Called == reply.kind = "CallTool"

\* a and b of the last CallTool were both given as finite numbers.
NumericArgs == IsFiniteNum(reply.args.a) /\ IsFiniteNum(reply.args.b)

\* The last CallTool asked for a division: the tool divide, or the
\* super-calculator with operation divide.
DivideCall ==
    \/ reply.name = "divide"
    \/ reply.name = "super-calculator" /\ reply.args.operation = "divide"

\* C15 as stated: a division of numbers fails with the divide-by-zero error
\* whenever b is 0, and no division that succeeds has the result Infinity,
\* -Infinity or NaN.
C15_DivideNeverInfinite ==
    (Called /\ DivideCall /\ NumericArgs)
        => /\ reply.args.b.n = 0 => reply.out.error = "Cannot divide by zero"
           /\ reply.out.error = ""
                => IsFiniteNum(reply.out.structuredContent.result)

\* C15 amended: a division of numbers fails with the divide-by-zero error
\* for every a whenever b is 0, so a division that succeeds has b # 0; its
\* result is never NaN, and it is Infinity or -Infinity only when the
\* quotient of the finite a by the nonzero b is beyond the largest double.
C15_DivideByZeroChecked ==
    (Called /\ DivideCall /\ NumericArgs)
        => LET a == reply.args.a
               b == reply.args.b
               result == reply.out.structuredContent.result
           IN /\ b.n = 0 => reply.out.error = "Cannot divide by zero"
              /\ reply.out.error = ""
                   => /\ b.n # 0
                      /\ result # NaN
                      /\ ~IsFiniteNum(result)
                            => Abs(a.n) * b.d > MaxDouble * a.d * Abs(b.n)

\* A division of 10 by 0 was asked of the super-calculator and failed with
\* the divide-by-zero error.
C15_Witness ==
    /\ Called
    /\ reply.name = "super-calculator"
    /\ reply.args.operation = "divide"
    /\ reply.args.a = Num(10, 1)
    /\ reply.args.b = Num(0, 1)
    /\ reply.out.error = "Cannot divide by zero"

\* C16: for all numbers a and b given, add returns a + b, subtract a - b,
\* multiply a * b, and divide with b # 0 returns a / b, each as the double
\* of the exact value; the structured payload carries a, b and that result.
C16_SingleOperationResults ==
    (Called /\ NumericArgs /\ reply.name \in Operations)
        => LET a == reply.args.a
               b == reply.args.b
               out == reply.out
           IN /\ reply.name = "add"
                   => /\ out.error = ""
                      /\ out.structuredContent.result
                            = ToDouble(a.n * b.d + b.n * a.d, a.d * b.d)
              /\ reply.name = "subtract"
                   => /\ out.error = ""
                      /\ out.structuredContent.result
                            = ToDouble(a.n * b.d - b.n * a.d, a.d * b.d)
              /\ reply.name = "multiply"
                   => /\ out.error = ""
                      /\ out.structuredContent.result
                            = ToDouble(a.n * b.n, a.d * b.d)
              /\ (reply.name = "divide" /\ b.n # 0)
                   => /\ out.error = ""
                      /\ out.structuredContent.result
                            = ToDouble(a.n * b.d * Sign(b.n), a.d * Abs(b.n))
              /\ out.error = ""
                   => /\ out.structuredContent.a = a
                      /\ out.structuredContent.b = b

\* subtract was called with 10 and 4 and returned 6.
C16_Witness ==
    /\ Called
    /\ reply.name = "subtract"
    /\ reply.args.a = Num(10, 1)
    /\ reply.args.b = Num(4, 1)
    /\ reply.out.error = ""
    /\ reply.out.structuredContent.result = Num(6, 1)

\* C17: for every a and b and every operation of the four, the
\* super-calculator returns the error, or the result and the text, that the
\* single-operation tool of that name returns for the same a and b (the
\* closing sentence of the text being the widget's own); when it succeeds
\* its structured payload is {a, b, operation, result}.  For 10, 4 and
\* divide the result is 5/2 and the text says "quotient of 10 and 4".
C17_SuperCalculatorAgrees ==
    (Called /\ reply.name = "super-calculator"
            /\ reply.args.operation \in Operations)
        => LET out == reply.out
               single == CallTool(widgetHtml, reply.args.operation, reply.args)
           IN /\ out.error = single.error
              /\ out.structuredContent.result = single.structuredContent.result
              /\ out.error = ""
                   => /\ out.structuredContent
                            = [a |-> reply.args.a, b |-> reply.args.b,
                               operation |-> reply.args.operation,
                               result |-> single.structuredContent.result]
                      /\ \A i \in 1..4 : out.text[i] = single.text[i]
                      /\ out.text[5] = "Super calculator rendered!"
              /\ (/\ reply.args.a = Num(10, 1)
                  /\ reply.args.b = Num(4, 1)
                  /\ reply.args.operation = "divide")
                   => /\ out.structuredContent.result = Num(5, 2)
                      /\ out.text[1] = "quotient"
                      /\ out.text[2] = Num(10, 1)
                      /\ out.text[3] = Num(4, 1)

\* The super-calculator divided 10 by 4 and returned the payload
\* {10, 4, divide, 5/2}.
C17_Witness ==
    /\ Called
    /\ reply.name = "super-calculator"
    /\ reply.out.error = ""
    /\ reply.out.structuredContent
          = [a |-> Num(10, 1), b |-> Num(4, 1), operation |-> "divide",
             result |-> Num(5, 2)]

\* C18: a CallTool whose name is not a widget id fails with the
\* unknown-tool error whatever its arguments are, valid or not: the lookup
\* comes before the arguments are parsed.
C18_UnknownToolFirst ==
    (Called /\ reply.name \notin WidgetIds)
        => /\ reply.out.error = "Unknown tool"
           /\ reply.out.structuredContent = NoStructured

\* A tool that does not exist was called with a that is not a number and
\* the unknown-tool error was reported.
C18_Witness ==
    /\ Called
    /\ reply.name = "sqrt"
    /\ reply.args.a = StrX
    /\ reply.out.error = "Unknown tool"

\* The arguments of the last CallTool do not fit the schema of its tool: a
\* or b is missing or not a number, or the tool is the super-calculator and
\* operation is missing or not one of the four.
InvalidArgs ==
    \/ reply.args.a.t # "number"
    \/ reply.args.b.t # "number"
    \/ reply.name = "super-calculator" /\ reply.args.operation \notin Operations

\* C19: a CallTool of an existing tool with arguments that do not fit its
\* schema fails with the invalid-arguments error and computes nothing; a
\* divide with b = 0 and an invalid a reports invalid arguments, not
\* divide-by-zero.
C19_InvalidArgumentsFirst ==
    (Called /\ reply.name \in WidgetIds /\ InvalidArgs)
        => /\ reply.out.error = "ZodError"
           /\ reply.out.structuredContent = NoStructured
           /\ reply.out.text = <<>>

\* divide was called with b = 0 and an a that is not a number, and the
\* invalid-arguments error was reported.
C19_Witness ==
    /\ Called
    /\ reply.name = "divide"
    /\ reply.args.a = StrX
    /\ reply.args.b = Num(0, 1)
    /\ reply.out.error = "ZodError"

\* C20: the outcome of every CallTool, whatever sessions were opened or
\* closed and whatever ReadResource did to the registry before it, is the
\* outcome the handler gives for that name and those arguments on the
\* registry as built at startup, so two calls with the same name and
\* arguments return the same; and the step that handles a CallTool changes
\* neither the session table nor the registry.
C20_CallToolPure ==
    [][(reply.kind # "CallTool" /\ reply'.kind = "CallTool")
        => /\ reply'.out = CallTool(StartHtml, reply'.name, reply'.args)
           /\ sessions' = sessions
           /\ widgetHtml' = widgetHtml
           /\ disk' = disk]_vars

\* divide answered a call after ReadResource had changed a registry record,
\* one session had been closed and another was registered.
C20_Witness ==
    /\ Called
    /\ reply.name = "divide"
    /\ reply.out.error = ""
    /\ widgetHtml # StartHtml
    /\ removed # {}
    /\ DOMAIN sessions # {}

\* C21: a ReadResource whose uri is not, character for character, the
\* templateUri of a widget fails with the unknown-resource error, and the
\* step that handles it changes nothing of the registry.
C21_UnknownResourceFails ==
    [][(reply.kind # "ReadResource" /\ reply'.kind = "ReadResource"
            /\ reply'.uri \notin WidgetUris)
        => /\ reply'.out = [error |-> "Unknown resource"]
           /\ widgetHtml' = widgetHtml]_vars

\* A uri that differs from a templateUri by the case of its letters only
\* was read, after a file had changed, and got the unknown-resource error.
C21_Witness ==
    /\ reply.kind = "ReadResource"
    /\ reply.uri = "UI://WIDGET/ADD.HTML"
    /\ reply.out.error = "Unknown resource"
    /\ disk # StartDisk
    /\ widgetHtml = StartHtml

\* C22 as stated: a ReadResource of a registered templateUri returns the
\* mimeType text/html+skybridge and a payload that is not empty, whether
\* the widget's file is absent, present, or present and empty.
C22_PayloadNonEmpty ==
    (reply.kind = "ReadResource" /\ reply.uri \in WidgetUris)
        => /\ reply.out.error = ""
           /\ reply.out.mimeType = "text/html+skybridge"
           /\ reply.out.text # <<"file", "">>

\* C23: for every widget the descriptor metadata of its tool, of its
\* resource and of its resource template are the same record, and every
\* ReadResource of its templateUri answers with that record.
C23_DescriptorMetaIdentical ==
    \A i \in DOMAIN widgets :
        /\ tools[i].meta = resources[i].meta
        /\ resources[i].meta = resourceTemplates[i].meta
        /\ tools[i].meta.outputTemplate = widgets[i].templateUri
        /\ (reply.kind = "ReadResource" /\ reply.uri = widgets[i].templateUri)
              => reply.out.meta = tools[i].meta
        /\ reply.kind = "ListTools" => reply.out[i].meta = resources[i].meta
        /\ reply.kind = "ListResources"
              => reply.out[i].meta = resourceTemplates[i].meta
        /\ reply.kind = "ListResourceTemplates"
              => reply.out[i].meta = tools[i].meta

\* The resource of the divide widget was read after its file had changed
\* and came with the descriptor metadata of the divide tool.
C23_Witness ==
    /\ reply.kind = "ReadResource"
    /\ reply.uri = "ui://widget/divide.html"
    /\ reply.out.error = ""
    /\ reply.out.meta.outputTemplate = "ui://widget/divide.html"
    /\ widgetHtml["divide"] # StartHtml["divide"]

\* C24: whatever ran before, ListTools, ListResources and
\* ListResourceTemplates each return one entry per widget and no other:
\* the tool named by the widget's id, the resource and the template whose
\* uri is the widget's templateUri.
C24_ListsAreComplete ==
    /\ reply.kind = "ListTools"
          => /\ DOMAIN reply.out = DOMAIN widgets
             /\ \A i \in DOMAIN widgets : reply.out[i].name = widgets[i].id
             /\ \A w \in WidgetIds :
                   Cardinality({i \in DOMAIN reply.out :
                                   reply.out[i].name = w}) = 1
    /\ reply.kind = "ListResources"
          => /\ DOMAIN reply.out = DOMAIN widgets
             /\ \A i \in DOMAIN widgets :
                   reply.out[i].uri = widgets[i].templateUri
             /\ \A u \in WidgetUris :
                   Cardinality({i \in DOMAIN reply.out :
                                   reply.out[i].uri = u}) = 1
    /\ reply.kind = "ListResourceTemplates"
          => /\ DOMAIN reply.out = DOMAIN widgets
             /\ \A i \in DOMAIN widgets :
                   reply.out[i].uriTemplate = widgets[i].templateUri
             /\ \A u \in WidgetUris :
                   Cardinality({i \in DOMAIN reply.out :
                                   reply.out[i].uriTemplate = u}) = 1

\* ListTools answered after ReadResource had reassigned a registry record.
C24_Witness ==
    /\ reply.kind = "ListTools"
    /\ widgetHtml # StartHtml
    /\ Cardinality(DOMAIN reply.out) = Cardinality(WidgetIds)

\* The request has passed through the listener (or through
\* handleCalculateApi) and its response is complete.
Answered(h) == http[h].pc = "done"

\* C25 as stated: every OPTIONS request, whatever its target, is answered
\* 204 with no body.
C25_OptionsAlways204 ==
    \A h \in HttpReqs :
        http[h].method = "OPTIONS"
            => /\ Answered(h)
               /\ http[h].status = 204
               /\ http[h].text = ""

\* C26 as stated: a /calculate whose body is no JSON is answered 400
\* "Invalid JSON"; one whose body is JSON with an a or a b that is not a
\* number is answered 400 "Invalid inputs"; every other one is answered 200
\* with a + b.
C26_CalculateAnswers ==
    \A h \in HttpReqs :
        (Answered(h) /\ http[h].body.kind # "none")
            => LET body == http[h].body
               IN IF body.kind = "garbage"
                  THEN /\ http[h].status = 400
                       /\ http[h].json.error = "Invalid JSON"
                  ELSE IF body.a.t # "number" \/ body.b.t # "number"
                  THEN /\ http[h].status = 400
                       /\ http[h].json.error = "Invalid inputs"
                  ELSE /\ http[h].status = 200
                       /\ http[h].json.error = ""
                       /\ http[h].json.result = JsAdd(body.a, body.b)

\* The request was a GET whose url.pathname starts with "/assets/".
StaticGet(h) ==
    /\ http[h].method = "GET"
    /\ UrlParses(http[h].target)
    /\ StartsWithAssets(Pathname(http[h].target))

AssetNames ==
    {<<"app", ".js">>, <<"add", ".html">>, <<"a", "..", "b", ".js">>,
     <<"my", " ", "file", ".js">>, <<"missing", ".js">>, Seg("img")}

PercentEncode(name) ==
    [i \in DOMAIN name |-> IF name[i] = " " THEN "%20" ELSE name[i]]

\* C28 as stated: a GET on /assets/<file> is answered 404 only if the file
\* is missing or outside the asset root; every regular file inside the
\* root, whatever its name, is served.
C28_EveryFileServed ==
    \A h \in HttpReqs : \A name \in AssetNames :
        (/\ http[h].method = "GET"
         /\ http[h].target = <<Seg("assets"), PercentEncode(name)>>
         /\ FileKind(disk, <<name>>) = "file")
            => /\ http[h].status = 200
               /\ http[h].served = [from |-> "assets", path |-> <<name>>]

\* The routes a request may match: the pre-flight, the two session routes,
\* /calculate and the static assets as listed, then the two the listener
\* has besides.
ListedRoute(method, pathname) ==
    \/ method = "OPTIONS"
    \/ method = "GET" /\ pathname = ssePath
    \/ method = "POST" /\ pathname = postPath
    \/ method = "POST" /\ pathname = calculatePath
    \/ method = "GET" /\ StartsWithAssets(pathname)

RootRoute(method, pathname) ==
    method = "GET" /\ pathname \in {rootPath, challengePath}

\* C29 as stated: every request whose method and path are those of no
\* listed route (SSE GET, message POST, /calculate POST, static GET,
\* OPTIONS) is answered 404 Not Found.
C29_UnlistedIs404 ==
    \A h \in HttpReqs :
        (/\ http[h].pc # "new"
         /\ ~(/\ UrlParses(http[h].target)
              /\ ListedRoute(http[h].method, Pathname(http[h].target))))
            => /\ Answered(h)
               /\ http[h].status = 404
               /\ http[h].text = "Not Found"

\* C29 amended: a request whose target parses and whose method and
\* url.pathname are those of no route, the listed ones and GET / and
\* GET /.well-known/openai-apps-challenge, is answered 404 Not Found; one
\* whose target does not parse is answered 500; a GET on / or on the
\* challenge path is answered 200 with the file when it exists and 404
\* otherwise.  None of these steps changes the session table, the requests
\* dispatched or the registry: a POST on the SSE path and a GET on the
\* message path open and dispatch nothing.
C29_UnroutedIs404 ==
    [][\A h \in HttpReqs :
        (/\ http[h].pc = "new" /\ http'[h].pc # "new"
         /\ ~(/\ UrlParses(http'[h].target)
              /\ ListedRoute(http'[h].method, Pathname(http'[h].target))))
            => /\ sessions' = sessions /\ post' = post /\ ssePc' = ssePc
               /\ widgetHtml' = widgetHtml /\ reply' = reply
               /\ IF ~UrlParses(http'[h].target)
                  THEN http'[h].pc = "done" /\ http'[h].status = 500
                  ELSE IF RootRoute(http'[h].method, Pathname(http'[h].target))
                  THEN \/ http'[h].pc = "streaming" /\ http'[h].status = 200
                       \/ http'[h].pc = "done" /\ http'[h].status = 404
                  ELSE /\ http'[h].pc = "done"
                       /\ http'[h].status = 404
                       /\ http'[h].text = "Not Found"]_vars

\* A POST on the SSE path was answered 404 Not Found while a session was
\* registered.
C29_Witness ==
    \E h \in HttpReqs :
        /\ http[h].method = "POST"
        /\ http[h].target = <<Seg("mcp")>>
        /\ http[h].status = 404
        /\ http[h].text = "Not Found"
        /\ DOMAIN sessions # {}

\* C30 as stated: every request the listener has received eventually has a
\* complete response, whether its handler failed or not.
C30_AlwaysAnswered ==
    \A h \in HttpReqs : (http[h].pc # "new") ~> Answered(h)

\* C31: a key leaves the session table only in a step of the transport's own
\* onclose or of the rejection of the session's own connect; no POST, no
\* event of another connection and no passing of time removes it.
C31_RemovedOnlyByOwnCloseOrFailure ==
    [][\A sid \in (DOMAIN sessions) \ (DOMAIN sessions') :
          \E c \in Conns :
              /\ connSid[c] = sid
              /\ \/ closeCalls'[c] = closeCalls[c] + 1
                 \/ ssePc[c] = "connecting" /\ ssePc'[c] = "failed"
              /\ \A d \in Conns \ {c} :
                    (Opened(d) /\ connSid[d] \in DOMAIN sessions)
                        => connSid[d] \in DOMAIN sessions']_vars

\* One connection's connect failed, a POST was answered, and the session of
\* another connection is still registered.
C31_Witness ==
    \E c, d \in Conns :
        /\ c # d
        /\ ssePc[c] = "failed"
        /\ connSid[c] \in removed
        /\ ssePc[d] = "connected"
        /\ connSid[d] \in DOMAIN sessions
        /\ \E r \in Reqs : post[r].pc = "done"

\* C32: a step of handleSseRequest adds exactly one key to the session
\* table, the id of the connection it serves, and after every step the table
\* has no more entries than there are SSE connections opened and not yet
\* closed.
C32_OneEntryPerOpenConnection ==
    [][/\ \A c \in Conns :
             (ssePc[c] = "new" /\ ssePc'[c] # "new")
                 => /\ (DOMAIN sessions') \ (DOMAIN sessions) = {connSid'[c]}
                    /\ (DOMAIN sessions) \ (DOMAIN sessions') = {}
       /\ Cardinality(DOMAIN sessions')
             <= Cardinality({c \in Conns : Opened(c)' /\ ~tClosed'[c]})]_vars

\* Both connections were opened, one was closed since, and the table holds
\* the one entry of the other.
C32_Witness ==
    \E c, d \in Conns :
        /\ c # d
        /\ Opened(c) /\ tClosed[c]
        /\ Opened(d) /\ ~tClosed[d]
        /\ DOMAIN sessions = {connSid[d]}

\* C34: every step of handlePostMessage that looks up the id of a session
\* whose transport has notified onclose before that step misses: it answers
\* 404 and forwards to no transport, whether or not server.close() of that
\* session has settled; and the step of onclose itself leaves the id out of
\* the table.
C34_LookupAfterCloseMisses ==
    [][/\ \A r \in Reqs, c \in Conns :
             (/\ post[r].pc = "new" /\ post'[r].pc # "new"
              /\ tClosed[c]
              /\ post'[r].param = connSid[c])
                 => /\ post'[r].lookedUp
                    /\ ~post'[r].wasKey
                    /\ post'[r].status = 404
                    /\ post'[r].fwdTo = NoTransport
       /\ \A c \in Conns :
             (closeCalls'[c] = closeCalls[c] + 1)
                 => connSid[c] \notin DOMAIN sessions']_vars

\* A POST naming a closed session was answered 404 while server.close() of
\* that session is still pending.
C34_Witness ==
    \E r \in Reqs, c \in Conns :
        /\ tClosed[c]
        /\ releasing[c] > 0
        /\ connSid[c] \in removed
        /\ post[r].param = connSid[c]
        /\ post[r].pc = "done"
        /\ post[r].lookedUp
        /\ post[r].status = 404

\* C35: no step of handlePostMessage forwards a message to the transport of
\* a session whose connect has neither resolved nor rejected yet.
C35_NoForwardWhileConnecting ==
    [][\A r \in Reqs, c \in Conns :
          (/\ post[r].pc = "new" /\ post'[r].pc # "new"
           /\ ssePc[c] = "connecting"
           /\ post'[r].param = connSid[c])
              => post'[r].fwdTo = NoTransport]_vars

\* C36: when the forward of a POST to a live session's transport throws,
\* the catch block answers 500 if no response head was sent yet, and the
\* session named by the POST is still in the table with the server and the
\* transport it was registered with.
C36_ThrowingForwardKeepsSession ==
    [][\A r \in Reqs :
          (/\ post[r].pc = "forwarding" /\ post'[r].pc = "done"
           /\ post'[r].threw)
              => /\ (~post'[r].headAtCatch) => post'[r].status = 500
                 /\ post[r].param \in DOMAIN sessions
                        => /\ post[r].param \in DOMAIN sessions'
                           /\ sessions'[post[r].param] = sessions[post[r].param]
                           /\ \E c \in Conns :
                                 /\ connSid[c] = post[r].param
                                 /\ sessions'[post[r].param] =
                                        [server |-> createCalculatorServer(c),
                                         transport |-> newTransport(c)]]_vars

\* A forward to a connected, open session threw before any head was sent;
\* the POST was answered 500 and the session is registered as before.
C36_Witness ==
    \E r \in Reqs, c \in Conns :
        /\ post[r].pc = "done"
        /\ post[r].threw
        /\ ~post[r].headAtCatch
        /\ post[r].status = 500
        /\ post[r].param = connSid[c]
        /\ ssePc[c] = "connected" /\ ~tClosed[c]
        /\ connSid[c] \in DOMAIN sessions
        /\ sessions[connSid[c]].transport = post[r].fwdTo

\* C37: res.writeHead is called, or the head goes out with the first chunk
\* piped, at most once for each request: for the requests the listener
\* answers itself, for the GET handed to handleSseRequest and for the POST
\* handed to handlePostMessage, whichever of the try blocks and catch blocks
\* ran.  A request that is done has exactly one head.
C37_OneHeadPerRequest ==
    /\ \A h \in HttpReqs :
          /\ http[h].heads <= 1
          /\ (http[h].pc = "done") => http[h].heads = 1
    /\ \A c \in Conns :
          /\ sseHeads[c] <= 1
          /\ (sseStatus[c] # 0) <=> (sseHeads[c] = 1)
    /\ \A r \in Reqs :
          /\ post[r].heads <= 1
          /\ (post[r].pc = "done") => post[r].heads = 1

\* Both catch blocks ran with one head each: a request whose URL does not
\* parse was answered 500 by the listener's catch, and a connect that
\* rejected after the transport's 200 head got no second head.
C37_Witness ==
    /\ \E h \in HttpReqs :
          /\ ~UrlParses(http[h].target)
          /\ http[h].pc = "done"
          /\ http[h].status = 500
          /\ http[h].heads = 1
    /\ \E c \in Conns :
          /\ ssePc[c] = "failed"
          /\ headAtFail[c]
          /\ sseStatus[c] = 200
          /\ sseHeads[c] = 1

\* C38: in every state the two maps of the registry have one entry for each
\* of the five widgets and none besides, no two widgets share an id or a
\* templateUri, and widgetsById.get(id) and widgetsByUri.get(templateUri) of
\* a widget are the same record, whatever ReadResource has assigned to
\* widget.html meanwhile.
C38_RegistryMapsAgree ==
    /\ Cardinality(WidgetIds) = Len(widgets)
    /\ Cardinality(WidgetUris) = Len(widgets)
    /\ {name \in ToolNames : widgetsById(widgetHtml, name) # NoWidget}
           = WidgetIds
    /\ {uri \in ResourceUris : widgetsByUri(widgetHtml, uri) # NoWidget}
           = WidgetUris
    /\ \A i \in DOMAIN widgets :
          /\ widgetsById(widgetHtml, widgets[i].id)
                = WidgetRecord(widgets[i], widgetHtml)
          /\ widgetsByUri(widgetHtml, widgets[i].templateUri)
                = widgetsById(widgetHtml, widgets[i].id)

\* ReadResource has assigned a new html to a widget's record, and both
\* lookups of that widget return the record with the new html.
C38_Witness ==
    \E i \in DOMAIN widgets :
        /\ widgetHtml[widgets[i].id] # StartHtml[widgets[i].id]
        /\ widgetsById(widgetHtml, widgets[i].id).html
              = widgetHtml[widgets[i].id]
        /\ widgetsByUri(widgetHtml, widgets[i].templateUri).html
              = widgetHtml[widgets[i].id]

\* C33: whichever of the five html files are missing when the registry is
\* built, the build gives every widget a payload, the file's text or, for a
\* missing file, the generated shell that names the widget and the widget
\* domain, and all five widgets are found in the registry.
C33_MissingFilesGetShell ==
    (widgetHtml # NotBuilt) =>
        /\ Len(widgets) = 5
        /\ Cardinality(WidgetIds) = 5
        /\ \A w \in WidgetIds :
              /\ widgetsById(widgetHtml, w) # NoWidget
              /\ widgetsById(widgetHtml, w).html[1] \in {"file", "shell"}
              /\ (disk[w] = "absent")
                    => widgetsById(widgetHtml, w).html
                          = <<"shell", w, "WIDGET_DOMAIN">>
              /\ (disk[w] # "absent")
                    => widgetsById(widgetHtml, w).html[1] = "file"

\* The registry was built with some files missing and some present, and a
\* ReadResource of a widget whose file is missing returned the shell.
C33_Witness ==
    /\ widgetHtml # NotBuilt
    /\ \E w, v \in WidgetIds :
          /\ disk[w] = "absent"
          /\ disk[v] = "built"
          /\ widgetHtml[w] = <<"shell", w, "WIDGET_DOMAIN">>
          /\ widgetHtml[v] = <<"file", "built">>
          /\ reply.kind = "ReadResource"
          /\ reply.out.error = ""
          /\ reply.out.uri = widgetsById(widgetHtml, w).templateUri
          /\ reply.out.text = <<"shell", w, "WIDGET_DOMAIN">>

\* What the CallTool handler returns for the calculation the widget ran:
\* through the tool named after the operation, which is the one the widget
\* calls, and through super-calculator with that operation.
ServerBasic(call) ==
    CallTool(widgetHtml, call.operation,
             [a |-> call.a, b |-> call.b, operation |-> NoOperation])

ServerSuper(call) ==
    CallTool(widgetHtml, "super-calculator",
             [a |-> call.a, b |-> call.b, operation |-> call.operation])

C40_HistoryIsLastFive ==
    LET n == Len(completed)
    IN  /\ Len(superCalculator.history) <= 5
        /\ superCalculator.history
              = SubSeq(completed, IF n > 5 THEN n - 4 ELSE 1, n)

\* Six calculations succeeded and one was refused: the history holds the
\* last five, the oldest one is gone.
C40_Witness ==
    /\ calcs = 7
    /\ calling = <<>>
    /\ Len(completed) = 6
    /\ Len(superCalculator.history) = 5
    /\ superCalculator.history[1] = completed[2]
    /\ superCalculator.history[5] = completed[6]
    /\ completed[1] # completed[2]
    /\ completed[5] # completed[6]

====
